---- MODULE Spec2Model ----
(***************************************************************************)
(* A model of the sprite batching list (arcade SpriteList, sprite_list.py) *)
(* and of the side shooter game loop (sideshot.py).                        *)
(*                                                                         *)
(* The SpriteList methods are operators from the list object (a record of  *)
(* its fields, named as in the source) to the list object after the call.  *)
(* A call that raises returns the object as it is at the raise, with the   *)
(* exception's name in the field "raised".  Indices are Python's: 0-based  *)
(* in the inputs, sequences are 1-based, hence the "+ 1" at each access.   *)
(*                                                                         *)
(* Left out: the counters _sprites_moved and _percent_sprites_moved, the   *)
(* texture atlas (a texture is known by the slot the atlas gives it), the  *)
(* GL context, program and geometry, logging and sound.  The arrays hold   *)
(* small integers, so no float32 or byte rounding takes place.  The game's *)
(* bullet list is followed as the sequence of its bullets.                 *)
(***************************************************************************)
EXTENDS Integers, Sequences, FiniteSets, TLC

\* ------------------------------------------------------------------ bounds
NumSprites == 2
MaxCapacity == 4
MaxInsertIndex == 5
MaxPose == 1

Sprites == 1..NumSprites
InitCapacities == {1, 2}
InsertIndices == (0 - 2)..MaxInsertIndex
Indices == (0 - NumSprites)..NumSprites
\* what an orphaned (reallocated, never written) GPU buffer may hold
OrphanFill == {0, 255}

\* ------------------------------------------------- Python list and array
Zeros(n) == [i \in 1..n |-> 0]

Fill(n, v) == [i \in 1..n |-> v]

Min(a, b) == IF a < b THEN a ELSE b

Abs(a) == IF a < 0 THEN 0 - a ELSE a

\* seq[i] of Python: a negative index counts from the end
PyIndex(i, n) == IF i < 0 THEN i + n ELSE i

InRange(i, n) == PyIndex(i, n) >= 0 /\ PyIndex(i, n) < n

\* list.insert / array.insert: the index is clamped into 0..len
PyInsertPos(i, n) ==
    IF i < 0 THEN (IF i + n < 0 THEN 0 ELSE i + n) ELSE Min(i, n)

PyInsert(seq, i, x) ==
    LET p == PyInsertPos(i, Len(seq))
    IN SubSeq(seq, 1, p) \o <<x>> \o SubSeq(seq, p + 1, Len(seq))

Contains(seq, x) == \E i \in 1..Len(seq) : seq[i] = x

\* list.index / array.index: 0-based position of the first occurrence
PyFind(seq, x) == (CHOOSE i \in 1..Len(seq) :
                      seq[i] = x /\ \A j \in 1..(i - 1) : seq[j] # x) - 1

\* list.remove / array.remove: drops the first occurrence
PyRemove(seq, x) ==
    LET p == PyFind(seq, x) + 1
    IN SubSeq(seq, 1, p - 1) \o SubSeq(seq, p + 1, Len(seq))

PyReverse(seq) == [i \in 1..Len(seq) |-> seq[Len(seq) + 1 - i]]

Range(seq) == {seq[i] : i \in 1..Len(seq)}

Restrict(f, S) == [x \in S |-> f[x]]

\* ---------------------------------------------------- the Sprite fields
\* The fields of a sprite that the list copies into its buffers.  pose[s][f]
\* counts how often field f of sprite s was set; each time it has a value no
\* sprite had in it before.  Sprite 1 is a sprite made without an image: its
\* _texture is None.
Fields == {"position", "width", "height", "angle", "color", "texture"}
Variant(L, s, f) == s + NumSprites * L.pose[s][f]
SpriteX(L, s) == 10 + Variant(L, s, "position")
SpriteY(L, s) == 20 + Variant(L, s, "position")
SpriteWidth(L, s) == 30 + Variant(L, s, "width")
SpriteHeight(L, s) == 40 + Variant(L, s, "height")
SpriteAngle(L, s) == 50 + Variant(L, s, "angle")
SpriteColor(L, s) ==
    <<60 + Variant(L, s, "color"), 70 + Variant(L, s, "color"),
      80 + Variant(L, s, "color")>>
SpriteAlpha(L, s) == 90 + Variant(L, s, "color")
HasTexture(s) == s > 1
\* the slot the texture atlas gives the sprite's texture
AtlasSlot(L, s) == 100 + Variant(L, s, "texture")

\* ------------------------------------------------------- the SpriteList
\* _deferred_sprites = None (after _init_deferred has run to its end)
NoDeferred == {0}

\* a GPU buffer of `bytes` bytes holding elements of `width` bytes each
Buffer(bytes, width, v) == Fill(bytes \div width, v)

\* Buffer.write(data): the data goes to the start of the buffer
BufferWrite(buf, data) ==
    [i \in 1..Len(buf) |-> IF i <= Len(data) THEN data[i] ELSE buf[i]]

Raise(L, e) == [L EXCEPT !.raised = e]

Enter(L, name) == [L EXCEPT !.called = name, !.raised = "none", !.returned = 0]

\* _SpatialHash, seen as the set of the objects it holds
HashInsert(L, s) ==
    [L EXCEPT !.spatial_hash.contents = @ \cup {s}]

HashRemove(L, s) ==
    [L EXCEPT !.spatial_hash.contents = @ \ {s}]

\* variant: the buffers grow only once the slots are past the capacity
_grow_sprite_buffers_late(L, g) ==
    IF L._sprite_buffer_slots <= L._buf_capacity THEN L
    ELSE
      LET extend_by == L._buf_capacity
      IN [L EXCEPT
            !._buf_capacity = L._buf_capacity * 2,
            !._sprite_pos_data = @ \o Zeros(extend_by * 2),
            !._sprite_size_data = @ \o Zeros(extend_by * 2),
            !._sprite_angle_data = @ \o Zeros(extend_by),
            !._sprite_color_data = @ \o Zeros(extend_by * 4),
            !._sprite_texture_data = @ \o Zeros(extend_by),
            !._sprite_pos_changed = TRUE,
            !._sprite_size_changed = TRUE,
            !._sprite_angle_changed = TRUE,
            !._sprite_color_changed = TRUE,
            !._sprite_texture_changed = TRUE]


_grow_sprite_buffers(L, g) ==
    IF L._sprite_buffer_slots < L._buf_capacity THEN L
    ELSE
      LET extend_by == L._buf_capacity
          cap == L._buf_capacity * 2
          L1 == [L EXCEPT
                   !._buf_capacity = cap,
                   !._sprite_pos_data = @ \o Zeros(extend_by * 2),
                   !._sprite_size_data = @ \o Zeros(extend_by * 2),
                   !._sprite_angle_data = @ \o Zeros(extend_by),
                   !._sprite_color_data = @ \o Zeros(extend_by * 4),
                   !._sprite_texture_data = @ \o Zeros(extend_by)]
          L2 == IF L._initialized
                THEN [L1 EXCEPT
                        !._sprite_pos_buf = Buffer(cap * 4 * 2, 4, g),
                        !._sprite_size_buf = Buffer(cap * 4 * 2, 4, g),
                        !._sprite_angle_buf = Buffer(cap * 4, 4, g),
                        !._sprite_color_buf = Buffer(cap * 4 * 4, 1, g),
                        !._sprite_texture_buf = Buffer(cap * 4, 4, g)]
                ELSE L1
      IN [L2 EXCEPT
            !._sprite_pos_changed = TRUE,
            !._sprite_size_changed = TRUE,
            !._sprite_angle_changed = TRUE,
            !._sprite_color_changed = TRUE,
            !._sprite_texture_changed = TRUE]

_grow_index_buffer(L, g) ==
    IF L._sprite_index_slots < L._idx_capacity THEN L
    ELSE
      LET extend_by == L._idx_capacity
          cap == L._idx_capacity * 2
          L1 == [L EXCEPT
                   !._idx_capacity = cap,
                   !._sprite_index_data = @ \o Zeros(extend_by)]
          L2 == IF L._initialized
                THEN [L1 EXCEPT !._sprite_index_buf = Buffer(cap * 4, 4, g)]
                ELSE L1
      IN [L2 EXCEPT !._sprite_index_changed = TRUE]

\* variant: the slot freed last is reused first (pop() in place of popleft())
_next_slot_lifo(L, g) ==
    IF L._sprite_buffer_free_slots # <<>>
    THEN LET n == Len(L._sprite_buffer_free_slots)
         IN [L EXCEPT !._sprite_buffer_free_slots = SubSeq(@, 1, n - 1),
                      !.returned = L._sprite_buffer_free_slots[n]]
    ELSE LET buff_slot == L._sprite_buffer_slots
         IN [_grow_sprite_buffers(
                 [L EXCEPT !._sprite_buffer_slots = @ + 1], g)
               EXCEPT !.returned = buff_slot]


\* _next_slot: the list afterwards, the slot it returns in "returned"
_next_slot(L, g) ==
    IF L._sprite_buffer_free_slots # <<>>
    THEN [L EXCEPT !._sprite_buffer_free_slots = Tail(@),
                   !.returned = Head(L._sprite_buffer_free_slots)]
    ELSE LET buff_slot == L._sprite_buffer_slots
         IN [_grow_sprite_buffers(
                 [L EXCEPT !._sprite_buffer_slots = @ + 1], g)
               EXCEPT !.returned = buff_slot]

\* variant: the angle is copied and _sprite_angle_changed is left as it is
_update_all_angle_unflagged(L, sprite) ==
    LET slot == L.sprite_slot[sprite]
        L1 == [L EXCEPT
                 !._sprite_pos_data[slot * 2 + 1] = SpriteX(L, sprite),
                 !._sprite_pos_data[slot * 2 + 2] = SpriteY(L, sprite),
                 !._sprite_pos_changed = TRUE,
                 !._sprite_size_data[slot * 2 + 1] = SpriteWidth(L, sprite),
                 !._sprite_size_data[slot * 2 + 2] = SpriteHeight(L, sprite),
                 !._sprite_size_changed = TRUE,
                 !._sprite_angle_data[slot + 1] = SpriteAngle(L, sprite),
                 !._sprite_color_data[slot * 4 + 1] = SpriteColor(L, sprite)[1],
                 !._sprite_color_data[slot * 4 + 2] = SpriteColor(L, sprite)[2],
                 !._sprite_color_data[slot * 4 + 3] = SpriteColor(L, sprite)[3],
                 !._sprite_color_data[slot * 4 + 4] = SpriteAlpha(L, sprite),
                 !._sprite_color_changed = TRUE]
    IN IF ~L._initialized
       THEN [L1 EXCEPT !._deferred_sprites = @ \cup {sprite}]
       ELSE IF ~HasTexture(sprite) THEN L1
       ELSE [L1 EXCEPT
               !._sprite_texture_data[slot + 1] = AtlasSlot(L, sprite),
               !._sprite_texture_changed = TRUE]

_update_all(L, sprite) ==
    LET slot == L.sprite_slot[sprite]
        L1 == [L EXCEPT
                 !._sprite_pos_data[slot * 2 + 1] = SpriteX(L, sprite),
                 !._sprite_pos_data[slot * 2 + 2] = SpriteY(L, sprite),
                 !._sprite_pos_changed = TRUE,
                 !._sprite_size_data[slot * 2 + 1] = SpriteWidth(L, sprite),
                 !._sprite_size_data[slot * 2 + 2] = SpriteHeight(L, sprite),
                 !._sprite_size_changed = TRUE,
                 !._sprite_angle_data[slot + 1] = SpriteAngle(L, sprite),
                 !._sprite_angle_changed = TRUE,
                 !._sprite_color_data[slot * 4 + 1] = SpriteColor(L, sprite)[1],
                 !._sprite_color_data[slot * 4 + 2] = SpriteColor(L, sprite)[2],
                 !._sprite_color_data[slot * 4 + 3] = SpriteColor(L, sprite)[3],
                 !._sprite_color_data[slot * 4 + 4] = SpriteAlpha(L, sprite),
                 !._sprite_color_changed = TRUE]
    IN IF ~L._initialized
       THEN [L1 EXCEPT !._deferred_sprites = @ \cup {sprite}]
       ELSE IF ~HasTexture(sprite) THEN L1
       ELSE [L1 EXCEPT
               !._sprite_texture_data[slot + 1] = AtlasSlot(L, sprite),
               !._sprite_texture_changed = TRUE]

update_texture(L, sprite) ==
    IF ~L._initialized
    THEN [L EXCEPT !._deferred_sprites = @ \cup {sprite}]
    ELSE IF ~HasTexture(sprite) THEN L
    ELSE IF sprite \notin DOMAIN L.sprite_slot THEN Raise(L, "KeyError")
    ELSE LET slot == L.sprite_slot[sprite]
         IN [L EXCEPT
               !._sprite_texture_data[slot + 1] = AtlasSlot(L, sprite),
               !._sprite_texture_changed = TRUE,
               !._sprite_size_data[slot * 2 + 1] = SpriteWidth(L, sprite),
               !._sprite_size_data[slot * 2 + 2] = SpriteHeight(L, sprite),
               !._sprite_size_changed = TRUE]

\* the loop of _init_deferred over _deferred_sprites, visited in `order`
RECURSIVE LoadDeferred(_, _, _)
LoadDeferred(L, order, i) ==
    IF i > Len(order) THEN L
    ELSE IF ~HasTexture(order[i]) THEN Raise(L, "ValueError")
    ELSE LET L1 == update_texture(L, order[i])
         IN IF L1.raised # "none" THEN L1
            ELSE LoadDeferred(L1, order, i + 1)

\* get_window() raises when no window is active
_init_deferred(L, window_exists, order) ==
    IF ~window_exists THEN Raise(L, "RuntimeError")
    ELSE
      LET L1 == [L EXCEPT
                   !._sprite_pos_buf = Buffer(L._buf_capacity * 8 * 2, 4, 0),
                   !._sprite_size_buf = Buffer(L._buf_capacity * 8 * 2, 4, 0),
                   !._sprite_angle_buf = Buffer(L._buf_capacity * 8, 4, 0),
                   !._sprite_color_buf = Buffer(L._buf_capacity * 4 * 4, 1, 0),
                   !._sprite_texture_buf = Buffer(L._buf_capacity * 4, 4, 0),
                   !._sprite_index_buf = Buffer(L._idx_capacity * 4, 4, 0),
                   !._initialized = TRUE]
          L2 == LoadDeferred(L1, order, 1)
      IN IF L2.raised # "none" THEN L2
         ELSE [L2 EXCEPT
                 !._deferred_sprites = NoDeferred,
                 !._sprite_pos_changed = TRUE,
                 !._sprite_size_changed = TRUE,
                 !._sprite_angle_changed = TRUE,
                 !._sprite_color_changed = TRUE,
                 !._sprite_texture_changed = TRUE,
                 !._sprite_index_changed = TRUE]

\* SpriteList(use_spatial_hash, capacity=capacity)
NewSpriteList(use_spatial_hash, capacity, window_exists) ==
    LET cap == IF Abs(capacity) = 0 THEN 100 ELSE Abs(capacity)
        L0 == [ _initialized |-> FALSE,
                _buf_capacity |-> cap,
                _idx_capacity |-> cap,
                _sprite_buffer_slots |-> 0,
                _sprite_index_slots |-> 0,
                _sprite_buffer_free_slots |-> <<>>,
                _deferred_sprites |-> {},
                sprite_list |-> <<>>,
                sprite_slot |-> <<>>,
                _sprite_pos_data |-> Zeros(cap * 2),
                _sprite_size_data |-> Zeros(cap * 2),
                _sprite_angle_data |-> Zeros(cap),
                _sprite_color_data |-> Zeros(cap * 4),
                _sprite_texture_data |-> Zeros(cap),
                _sprite_index_data |-> Zeros(cap),
                _sprite_pos_changed |-> FALSE,
                _sprite_size_changed |-> FALSE,
                _sprite_angle_changed |-> FALSE,
                _sprite_color_changed |-> FALSE,
                _sprite_texture_changed |-> FALSE,
                _sprite_index_changed |-> FALSE,
                _sprite_pos_buf |-> <<>>,
                _sprite_size_buf |-> <<>>,
                _sprite_angle_buf |-> <<>>,
                _sprite_color_buf |-> <<>>,
                _sprite_texture_buf |-> <<>>,
                _sprite_index_buf |-> <<>>,
                spatial_hash |-> [present |-> use_spatial_hash = "True",
                                  contents |-> {}],
                _use_spatial_hash |-> use_spatial_hash,
                sprite_lists |-> [s \in Sprites |-> 0],
                pose |-> [s \in Sprites |-> [f \in Fields |-> 0]],
                called |-> "__init__",
                raised |-> "none",
                returned |-> 0 ]
        L1 == _init_deferred(L0, window_exists, <<>>)
    IN IF L1.raised # "none" THEN L0 ELSE L1

\* dict assignment self.sprite_slot[sprite] = slot
SetSlot(slots, sprite, slot) ==
    [x \in DOMAIN slots \cup {sprite} |-> IF x = sprite THEN slot ELSE slots[x]]

__setitem__(L, index, sprite) ==
    IF Contains(L.sprite_list, sprite)
    THEN IF PyFind(L.sprite_list, sprite) = index THEN L
         ELSE Raise(L, "Exception")
    ELSE IF ~InRange(index, Len(L.sprite_list)) THEN Raise(L, "IndexError")
    ELSE
      LET at == PyIndex(index, Len(L.sprite_list)) + 1
          sprite_to_be_removed == L.sprite_list[at]
          L1 == [L EXCEPT
                   !.sprite_lists[sprite_to_be_removed] = @ - 1,
                   !.sprite_list[at] = sprite,
                   !.sprite_lists[sprite] = @ + 1]
          L2 == IF L1.spatial_hash.present
                THEN HashInsert(HashRemove(L1, sprite_to_be_removed), sprite)
                ELSE L1
          slot == L2.sprite_slot[sprite_to_be_removed]
          L3 == [L2 EXCEPT
                   !.sprite_slot =
                       SetSlot(Restrict(@, DOMAIN @ \ {sprite_to_be_removed}),
                               sprite, slot)]
      IN _update_all(L3, sprite)

\* variant: the slot of the removed sprite is freed and stays in sprite_slot
remove_keeps_slot(L, sprite) ==
    IF sprite \notin DOMAIN L.sprite_slot \/ ~Contains(L.sprite_list, sprite)
    THEN Raise(L, "ValueError")
    ELSE
      LET slot == L.sprite_slot[sprite]
          L1 == [L EXCEPT
                   !.sprite_list = PyRemove(@, sprite),
                   !.sprite_lists[sprite] = @ - 1,
                   !._sprite_buffer_free_slots = Append(@, slot)]
      IN IF ~Contains(L1._sprite_index_data, slot) THEN Raise(L1, "ValueError")
         ELSE
           LET L2 == [L1 EXCEPT
                        !._sprite_index_data = Append(PyRemove(@, slot), 0),
                        !._sprite_index_slots = @ - 1,
                        !._sprite_index_changed = TRUE]
           IN IF L2.spatial_hash.present THEN HashRemove(L2, sprite) ELSE L2

\* variant: removing a sprite that has no slot returns without raising
remove_silent(L, sprite) ==
    IF sprite \notin DOMAIN L.sprite_slot THEN L
    ELSE
      LET slot == L.sprite_slot[sprite]
          L1 == [L EXCEPT
                   !.sprite_list = PyRemove(@, sprite),
                   !.sprite_lists[sprite] = @ - 1,
                   !.sprite_slot = Restrict(@, DOMAIN @ \ {sprite}),
                   !._sprite_buffer_free_slots = Append(@, slot)]
      IN IF ~Contains(L1._sprite_index_data, slot) THEN Raise(L1, "ValueError")
         ELSE
           LET L2 == [L1 EXCEPT
                        !._sprite_index_data = Append(PyRemove(@, slot), 0),
                        !._sprite_index_slots = @ - 1,
                        !._sprite_index_changed = TRUE]
           IN IF L2.spatial_hash.present THEN HashRemove(L2, sprite) ELSE L2

remove(L, sprite) ==
    IF sprite \notin DOMAIN L.sprite_slot THEN Raise(L, "ValueError")
    ELSE
      LET slot == L.sprite_slot[sprite]
          L1 == [L EXCEPT
                   !.sprite_list = PyRemove(@, sprite),
                   !.sprite_lists[sprite] = @ - 1,
                   !.sprite_slot = Restrict(@, DOMAIN @ \ {sprite}),
                   !._sprite_buffer_free_slots = Append(@, slot)]
      IN IF ~Contains(L1._sprite_index_data, slot) THEN Raise(L1, "ValueError")
         ELSE
           LET L2 == [L1 EXCEPT
                        !._sprite_index_data = Append(PyRemove(@, slot), 0),
                        !._sprite_index_slots = @ - 1,
                        !._sprite_index_changed = TRUE]
           IN IF L2.spatial_hash.present THEN HashRemove(L2, sprite) ELSE L2

pop(L, index) ==
    IF Len(L.sprite_list) = 0 THEN Raise(L, "ValueError")
    ELSE IF ~InRange(index, Len(L.sprite_list)) THEN Raise(L, "IndexError")
    ELSE
      LET sprite == L.sprite_list[PyIndex(index, Len(L.sprite_list)) + 1]
          L1 == remove(L, sprite)
      IN IF L1.raised # "none" THEN L1
         ELSE [L1 EXCEPT !.returned = sprite]

\* variant: append does not look whether the sprite has a slot
append_unchecked(L, sprite, g) ==
    LET L1 == _next_slot(L, g)
        slot == L1.returned
        L2 == [L1 EXCEPT
                 !.returned = 0,
                 !.sprite_slot = SetSlot(@, sprite, slot),
                 !.sprite_list = Append(@, sprite),
                 !.sprite_lists[sprite] = @ + 1]
        L3 == _update_all(L2, sprite)
        idx_slot == L3._sprite_index_slots
        L4 == _grow_index_buffer(
                  [L3 EXCEPT !._sprite_index_slots = @ + 1], g)
        L5 == [L4 EXCEPT
                 !._sprite_index_data[idx_slot + 1] = slot,
                 !._sprite_index_changed = TRUE]
    IN IF L5.spatial_hash.present THEN HashInsert(L5, sprite) ELSE L5


append(L, sprite, g) ==
    IF sprite \in DOMAIN L.sprite_slot THEN Raise(L, "ValueError")
    ELSE
      LET L1 == _next_slot(L, g)
          slot == L1.returned
          L2 == [L1 EXCEPT
                   !.returned = 0,
                   !.sprite_slot = SetSlot(@, sprite, slot),
                   !.sprite_list = Append(@, sprite),
                   !.sprite_lists[sprite] = @ + 1]
          L3 == _update_all(L2, sprite)
          idx_slot == L3._sprite_index_slots
          L4 == _grow_index_buffer(
                    [L3 EXCEPT !._sprite_index_slots = @ + 1], g)
          L5 == [L4 EXCEPT
                   !._sprite_index_data[idx_slot + 1] = slot,
                   !._sprite_index_changed = TRUE]
      IN IF L5.spatial_hash.present THEN HashInsert(L5, sprite) ELSE L5

swap(L, index_1, index_2) ==
    IF ~InRange(index_1, Len(L.sprite_list))
       \/ ~InRange(index_2, Len(L.sprite_list))
    THEN Raise(L, "IndexError")
    ELSE
      LET p1 == PyIndex(index_1, Len(L.sprite_list)) + 1
          p2 == PyIndex(index_2, Len(L.sprite_list)) + 1
          sprite_1 == L.sprite_list[p1]
          sprite_2 == L.sprite_list[p2]
          L1 == [L EXCEPT !.sprite_list = [[@ EXCEPT ![p1] = sprite_2]
                                              EXCEPT ![p2] = sprite_1]]
          slot_1 == L1.sprite_slot[sprite_1]
          slot_2 == L1.sprite_slot[sprite_2]
      IN IF ~Contains(L1._sprite_index_data, slot_1)
            \/ ~Contains(L1._sprite_index_data, slot_2)
         THEN Raise(L1, "ValueError")
         ELSE
           LET i1 == PyFind(L1._sprite_index_data, slot_1) + 1
               i2 == PyFind(L1._sprite_index_data, slot_2) + 1
           IN [L1 EXCEPT !._sprite_index_data = [[@ EXCEPT ![i1] = slot_2]
                                                    EXCEPT ![i2] = slot_1]]

insert(L, index, sprite, g) ==
    IF Contains(L.sprite_list, sprite) THEN Raise(L, "ValueError")
    ELSE
      LET L1 == [L EXCEPT
                   !.sprite_list = PyInsert(@, index, sprite),
                   !.sprite_lists[sprite] = @ + 1]
          L2 == _next_slot(L1, g)
          slot == L2.returned
          L3 == _update_all(
                    [L2 EXCEPT !.returned = 0,
                               !.sprite_slot = SetSlot(@, sprite, slot)],
                    sprite)
          L4 == _grow_index_buffer(
                    [L3 EXCEPT !._sprite_index_slots = @ + 1], g)
          inserted == PyInsert(L4._sprite_index_data, index, slot)
          L5 == [L4 EXCEPT
                   !._sprite_index_data = SubSeq(inserted, 1, Len(inserted) - 1)]
      IN IF L5.spatial_hash.present THEN HashInsert(L5, sprite) ELSE L5

\* zero padding of the index array up to _idx_capacity
PadIndex(data, capacity) ==
    IF Len(data) < capacity THEN data \o Zeros(capacity - Len(data)) ELSE data

reverse(L) ==
    LET used == SubSeq(L._sprite_index_data, 1,
                       Min(L._sprite_index_slots, Len(L._sprite_index_data)))
    IN [L EXCEPT
          !.sprite_list = PyReverse(@),
          !._sprite_index_data = PadIndex(PyReverse(used), L._idx_capacity),
          !._sprite_index_changed = TRUE]

\* zip() stops at the shorter of the two; zip(*pairs) of no pairs yields
\* nothing to unpack into (sprites, indices)
shuffle(L) ==
    LET n == Min(Len(L.sprite_list), Len(L._sprite_index_data))
    IN IF n = 0 THEN Raise(L, "ValueError")
       ELSE [L EXCEPT
               !.sprite_list = SubSeq(@, 1, n),
               !._sprite_index_data =
                   PadIndex(SubSeq(@, 1, n), L._idx_capacity)]

\* raise NotImplemented: NotImplemented is no exception, Python raises TypeError
clear(L) == Raise(L, "TypeError")

disable_spatial_hashing(L) ==
    [L EXCEPT !._use_spatial_hash = "False",
              !.spatial_hash = [present |-> FALSE, contents |-> {}]]

_recalculate_spatial_hashes(L) ==
    IF L._use_spatial_hash = "True"
    THEN [L EXCEPT !.spatial_hash.contents = Range(L.sprite_list)]
    ELSE L

enable_spatial_hashing(L) ==
    _recalculate_spatial_hashes(
        [L EXCEPT !.spatial_hash = [present |-> TRUE, contents |-> {}],
                  !._use_spatial_hash = "True"])

update_position(L, sprite) ==
    IF sprite \notin DOMAIN L.sprite_slot THEN Raise(L, "KeyError")
    ELSE LET slot == L.sprite_slot[sprite]
         IN [L EXCEPT
               !._sprite_pos_data[slot * 2 + 1] = SpriteX(L, sprite),
               !._sprite_pos_data[slot * 2 + 2] = SpriteY(L, sprite),
               !._sprite_pos_changed = TRUE]

update_color(L, sprite) ==
    IF sprite \notin DOMAIN L.sprite_slot THEN Raise(L, "KeyError")
    ELSE LET slot == L.sprite_slot[sprite]
         IN [L EXCEPT
               !._sprite_color_data[slot * 4 + 1] = SpriteColor(L, sprite)[1],
               !._sprite_color_data[slot * 4 + 2] = SpriteColor(L, sprite)[2],
               !._sprite_color_data[slot * 4 + 3] = SpriteColor(L, sprite)[3],
               !._sprite_color_data[slot * 4 + 4] = SpriteAlpha(L, sprite),
               !._sprite_color_changed = TRUE]

update_size(L, sprite) ==
    IF sprite \notin DOMAIN L.sprite_slot THEN Raise(L, "KeyError")
    ELSE LET slot == L.sprite_slot[sprite]
         IN [L EXCEPT
               !._sprite_size_data[slot * 2 + 1] = SpriteWidth(L, sprite),
               !._sprite_size_data[slot * 2 + 2] = SpriteHeight(L, sprite),
               !._sprite_size_changed = TRUE]

update_height(L, sprite) ==
    IF sprite \notin DOMAIN L.sprite_slot THEN Raise(L, "KeyError")
    ELSE LET slot == L.sprite_slot[sprite]
         IN [L EXCEPT
               !._sprite_size_data[slot * 2 + 2] = SpriteHeight(L, sprite),
               !._sprite_size_changed = TRUE]

update_width(L, sprite) ==
    IF sprite \notin DOMAIN L.sprite_slot THEN Raise(L, "KeyError")
    ELSE LET slot == L.sprite_slot[sprite]
         IN [L EXCEPT
               !._sprite_size_data[slot * 2 + 1] = SpriteWidth(L, sprite),
               !._sprite_size_changed = TRUE]

update_location(L, sprite) ==
    IF sprite \notin DOMAIN L.sprite_slot THEN Raise(L, "ValueError")
    ELSE LET slot == L.sprite_slot[sprite]
         IN [L EXCEPT
               !._sprite_pos_data[slot * 2 + 1] = SpriteX(L, sprite),
               !._sprite_pos_data[slot * 2 + 2] = SpriteY(L, sprite),
               !._sprite_pos_changed = TRUE]

update_angle(L, sprite) ==
    IF sprite \notin DOMAIN L.sprite_slot THEN Raise(L, "KeyError")
    ELSE LET slot == L.sprite_slot[sprite]
         IN [L EXCEPT
               !._sprite_angle_data[slot + 1] = SpriteAngle(L, sprite),
               !._sprite_angle_changed = TRUE]

_write_sprite_buffers_to_gpu(L) ==
    LET L1 == IF L._sprite_pos_changed
              THEN [L EXCEPT
                      !._sprite_pos_buf = BufferWrite(@, L._sprite_pos_data),
                      !._sprite_pos_changed = FALSE]
              ELSE L
        L2 == IF L1._sprite_size_changed
              THEN [L1 EXCEPT
                      !._sprite_size_buf = BufferWrite(@, L._sprite_size_data),
                      !._sprite_size_changed = FALSE]
              ELSE L1
        L3 == IF L2._sprite_angle_changed
              THEN [L2 EXCEPT
                      !._sprite_angle_buf = BufferWrite(@, L._sprite_angle_data),
                      !._sprite_angle_changed = FALSE]
              ELSE L2
        L4 == IF L3._sprite_color_changed
              THEN [L3 EXCEPT
                      !._sprite_color_buf = BufferWrite(@, L._sprite_color_data),
                      !._sprite_color_changed = FALSE]
              ELSE L3
        L5 == IF L4._sprite_texture_changed
              THEN [L4 EXCEPT
                      !._sprite_texture_buf =
                          BufferWrite(@, L._sprite_texture_data),
                      !._sprite_texture_changed = FALSE]
              ELSE L4
    IN IF L5._sprite_index_changed
       THEN [L5 EXCEPT
               !._sprite_index_buf = BufferWrite(@, L._sprite_index_data),
               !._sprite_index_changed = FALSE]
       ELSE L5

draw(L, window_exists, order) ==
    LET L1 == IF ~L._initialized
              THEN _init_deferred(L, window_exists, order)
              ELSE L
    IN IF L1.raised # "none" THEN L1
       ELSE IF Len(L1.sprite_list) = 0 THEN L1
       ELSE IF L1._sprite_pos_changed \/ L1._sprite_size_changed
               \/ L1._sprite_angle_changed \/ L1._sprite_color_changed
               \/ L1._sprite_texture_changed \/ L1._sprite_index_changed
            THEN _write_sprite_buffers_to_gpu(L1)
            ELSE L1

\* ------------------------------------------------------------- the state
\* The fields of the one SpriteList under study, the sprites' sprite_lists
\* (how often each sprite lists this SpriteList), the method called last with
\* what it raised and returned, and whether a window is active.
VARIABLES
    _initialized, _buf_capacity, _idx_capacity, _sprite_buffer_slots,
    _sprite_index_slots, _sprite_buffer_free_slots, _deferred_sprites,
    sprite_list, sprite_slot, _sprite_pos_data, _sprite_size_data,
    _sprite_angle_data, _sprite_color_data, _sprite_texture_data,
    _sprite_index_data, _sprite_pos_changed, _sprite_size_changed,
    _sprite_angle_changed, _sprite_color_changed, _sprite_texture_changed,
    _sprite_index_changed, _sprite_pos_buf, _sprite_size_buf,
    _sprite_angle_buf, _sprite_color_buf, _sprite_texture_buf,
    _sprite_index_buf, spatial_hash, _use_spatial_hash, sprite_lists, pose,
    called, raised, returned, window

listvars ==
    <<_initialized, _buf_capacity, _idx_capacity, _sprite_buffer_slots,
      _sprite_index_slots, _sprite_buffer_free_slots, _deferred_sprites,
      sprite_list, sprite_slot, _sprite_pos_data, _sprite_size_data,
      _sprite_angle_data, _sprite_color_data, _sprite_texture_data,
      _sprite_index_data, _sprite_pos_changed, _sprite_size_changed,
      _sprite_angle_changed, _sprite_color_changed,
      _sprite_texture_changed, _sprite_index_changed, _sprite_pos_buf,
      _sprite_size_buf, _sprite_angle_buf, _sprite_color_buf,
      _sprite_texture_buf, _sprite_index_buf, spatial_hash,
      _use_spatial_hash, sprite_lists, pose, called, raised, returned, window>>

\* The game's window size, its player and background sprites, the direction
\* held, its bullets, and the number of on_update calls so far.
VARIABLES
    screen, pict, backg, backg2, direction, bullet_list, ticks

gamevars == <<screen, pict, backg, backg2, direction, bullet_list, ticks>>

\* the list object
Self ==
    [ _initialized |-> _initialized,
      _buf_capacity |-> _buf_capacity,
      _idx_capacity |-> _idx_capacity,
      _sprite_buffer_slots |-> _sprite_buffer_slots,
      _sprite_index_slots |-> _sprite_index_slots,
      _sprite_buffer_free_slots |-> _sprite_buffer_free_slots,
      _deferred_sprites |-> _deferred_sprites,
      sprite_list |-> sprite_list,
      sprite_slot |-> sprite_slot,
      _sprite_pos_data |-> _sprite_pos_data,
      _sprite_size_data |-> _sprite_size_data,
      _sprite_angle_data |-> _sprite_angle_data,
      _sprite_color_data |-> _sprite_color_data,
      _sprite_texture_data |-> _sprite_texture_data,
      _sprite_index_data |-> _sprite_index_data,
      _sprite_pos_changed |-> _sprite_pos_changed,
      _sprite_size_changed |-> _sprite_size_changed,
      _sprite_angle_changed |-> _sprite_angle_changed,
      _sprite_color_changed |-> _sprite_color_changed,
      _sprite_texture_changed |-> _sprite_texture_changed,
      _sprite_index_changed |-> _sprite_index_changed,
      _sprite_pos_buf |-> _sprite_pos_buf,
      _sprite_size_buf |-> _sprite_size_buf,
      _sprite_angle_buf |-> _sprite_angle_buf,
      _sprite_color_buf |-> _sprite_color_buf,
      _sprite_texture_buf |-> _sprite_texture_buf,
      _sprite_index_buf |-> _sprite_index_buf,
      spatial_hash |-> spatial_hash,
      _use_spatial_hash |-> _use_spatial_hash,
      sprite_lists |-> sprite_lists,
      pose |-> pose,
      called |-> called,
      raised |-> raised,
      returned |-> returned ]

\* the list object after the call
Becomes(L) ==
    /\ _initialized' = L._initialized
    /\ _buf_capacity' = L._buf_capacity
    /\ _idx_capacity' = L._idx_capacity
    /\ _sprite_buffer_slots' = L._sprite_buffer_slots
    /\ _sprite_index_slots' = L._sprite_index_slots
    /\ _sprite_buffer_free_slots' = L._sprite_buffer_free_slots
    /\ _deferred_sprites' = L._deferred_sprites
    /\ sprite_list' = L.sprite_list
    /\ sprite_slot' = L.sprite_slot
    /\ _sprite_pos_data' = L._sprite_pos_data
    /\ _sprite_size_data' = L._sprite_size_data
    /\ _sprite_angle_data' = L._sprite_angle_data
    /\ _sprite_color_data' = L._sprite_color_data
    /\ _sprite_texture_data' = L._sprite_texture_data
    /\ _sprite_index_data' = L._sprite_index_data
    /\ _sprite_pos_changed' = L._sprite_pos_changed
    /\ _sprite_size_changed' = L._sprite_size_changed
    /\ _sprite_angle_changed' = L._sprite_angle_changed
    /\ _sprite_color_changed' = L._sprite_color_changed
    /\ _sprite_texture_changed' = L._sprite_texture_changed
    /\ _sprite_index_changed' = L._sprite_index_changed
    /\ _sprite_pos_buf' = L._sprite_pos_buf
    /\ _sprite_size_buf' = L._sprite_size_buf
    /\ _sprite_angle_buf' = L._sprite_angle_buf
    /\ _sprite_color_buf' = L._sprite_color_buf
    /\ _sprite_texture_buf' = L._sprite_texture_buf
    /\ _sprite_index_buf' = L._sprite_index_buf
    /\ spatial_hash' = L.spatial_hash
    /\ _use_spatial_hash' = L._use_spatial_hash
    /\ sprite_lists' = L.sprite_lists
    /\ pose' = L.pose
    /\ called' = L.called
    /\ raised' = L.raised
    /\ returned' = L.returned

\* growth is followed up to MaxCapacity
Within(L) == L._buf_capacity <= MaxCapacity /\ L._idx_capacity <= MaxCapacity

\* the orders in which a set can be iterated
Orders(S) ==
    {o \in [1..Cardinality(S) -> S] : \A i, j \in DOMAIN o : i # j => o[i] # o[j]}

DeferredOrders ==
    IF _initialized \/ _deferred_sprites = NoDeferred THEN {<<>>}
    ELSE Orders(_deferred_sprites)

Call(L) == Within(L) /\ Becomes(L) /\ UNCHANGED <<window, gamevars>>

\* the list object is L
Is(L) ==
    /\ _initialized = L._initialized
    /\ _buf_capacity = L._buf_capacity
    /\ _idx_capacity = L._idx_capacity
    /\ _sprite_buffer_slots = L._sprite_buffer_slots
    /\ _sprite_index_slots = L._sprite_index_slots
    /\ _sprite_buffer_free_slots = L._sprite_buffer_free_slots
    /\ _deferred_sprites = L._deferred_sprites
    /\ sprite_list = L.sprite_list
    /\ sprite_slot = L.sprite_slot
    /\ _sprite_pos_data = L._sprite_pos_data
    /\ _sprite_size_data = L._sprite_size_data
    /\ _sprite_angle_data = L._sprite_angle_data
    /\ _sprite_color_data = L._sprite_color_data
    /\ _sprite_texture_data = L._sprite_texture_data
    /\ _sprite_index_data = L._sprite_index_data
    /\ _sprite_pos_changed = L._sprite_pos_changed
    /\ _sprite_size_changed = L._sprite_size_changed
    /\ _sprite_angle_changed = L._sprite_angle_changed
    /\ _sprite_color_changed = L._sprite_color_changed
    /\ _sprite_texture_changed = L._sprite_texture_changed
    /\ _sprite_index_changed = L._sprite_index_changed
    /\ _sprite_pos_buf = L._sprite_pos_buf
    /\ _sprite_size_buf = L._sprite_size_buf
    /\ _sprite_angle_buf = L._sprite_angle_buf
    /\ _sprite_color_buf = L._sprite_color_buf
    /\ _sprite_texture_buf = L._sprite_texture_buf
    /\ _sprite_index_buf = L._sprite_index_buf
    /\ spatial_hash = L.spatial_hash
    /\ _use_spatial_hash = L._use_spatial_hash
    /\ sprite_lists = L.sprite_lists
    /\ pose = L.pose
    /\ called = L.called
    /\ raised = L.raised
    /\ returned = L.returned

\* the SpriteList alone: the game is not running
NoGame ==
    /\ screen = [width |-> 0, height |-> 0]
    /\ pict = [center_x |-> 0, center_y |-> 0, speed |-> 0,
               width |-> 0, height |-> 0]
    /\ backg = [center_x |-> 0, center_y |-> 0, speed |-> 0, width |-> 0]
    /\ backg2 = [center_x |-> 0, center_y |-> 0, speed |-> 0, width |-> 0]
    /\ direction = "NONE"
    /\ bullet_list = <<>>
    /\ ticks = 0

\* the game alone: its bullet list is followed as the list of its bullets
NoList ==
    /\ window = TRUE
    /\ Is(NewSpriteList("None", 1, TRUE))

Init ==
    \E use_spatial_hash \in {"None", "True"}, capacity \in InitCapacities,
       w \in BOOLEAN :
        /\ window = w
        /\ Is(NewSpriteList(use_spatial_hash, capacity, w))
        /\ NoGame

\* the application opens its window
create_window == ~window /\ window' = TRUE /\ UNCHANGED
    <<gamevars,
      _initialized, _buf_capacity, _idx_capacity, _sprite_buffer_slots,
      _sprite_index_slots, _sprite_buffer_free_slots, _deferred_sprites,
      sprite_list, sprite_slot, _sprite_pos_data, _sprite_size_data,
      _sprite_angle_data, _sprite_color_data, _sprite_texture_data,
      _sprite_index_data, _sprite_pos_changed, _sprite_size_changed,
      _sprite_angle_changed, _sprite_color_changed,
      _sprite_texture_changed, _sprite_index_changed, _sprite_pos_buf,
      _sprite_size_buf, _sprite_angle_buf, _sprite_color_buf,
      _sprite_texture_buf, _sprite_index_buf, spatial_hash,
      _use_spatial_hash, sprite_lists, pose, called, raised, returned>>

call_append(s) ==
    \E g \in OrphanFill : Call(append(Enter(Self, "append"), s, g))

call_insert(i, s) ==
    \E g \in OrphanFill : Call(insert(Enter(Self, "insert"), i, s, g))

call_remove(s) == Call(remove(Enter(Self, "remove"), s))

call_pop(i) == Call(pop(Enter(Self, "pop"), i))

call_setitem(i, s) == Call(__setitem__(Enter(Self, "__setitem__"), i, s))

call_swap(i, j) == Call(swap(Enter(Self, "swap"), i, j))

call_reverse == Call(reverse(Enter(Self, "reverse")))

call_shuffle == Call(shuffle(Enter(Self, "shuffle")))

call_clear == Call(clear(Enter(Self, "clear")))

call_enable_spatial_hashing ==
    Call(enable_spatial_hashing(Enter(Self, "enable_spatial_hashing")))

call_disable_spatial_hashing ==
    Call(disable_spatial_hashing(Enter(Self, "disable_spatial_hashing")))

call_update_position(s) ==
    Call(update_position(Enter(Self, "update_position"), s))

call_update_color(s) == Call(update_color(Enter(Self, "update_color"), s))

call_update_size(s) == Call(update_size(Enter(Self, "update_size"), s))

call_update_height(s) == Call(update_height(Enter(Self, "update_height"), s))

call_update_width(s) == Call(update_width(Enter(Self, "update_width"), s))

call_update_location(s) ==
    Call(update_location(Enter(Self, "update_location"), s))

call_update_angle(s) == Call(update_angle(Enter(Self, "update_angle"), s))

call_update_texture(s) ==
    Call(update_texture(Enter(Self, "update_texture"), s))

call_draw ==
    \E order \in DeferredOrders : Call(draw(Enter(Self, "draw"), window, order))

\* the operations on the list's structure
Next ==
    \/ \E s \in Sprites : call_append(s)
    \/ \E i \in InsertIndices, s \in Sprites : call_insert(i, s)
    \/ \E s \in Sprites : call_remove(s)
    \/ \E i \in Indices : call_pop(i)
    \/ \E i \in Indices, s \in Sprites : call_setitem(i, s)
    \/ \E i, j \in Indices : call_swap(i, j)
    \/ call_reverse
    \/ call_shuffle
    \/ call_clear
    \/ call_enable_spatial_hashing
    \/ call_disable_spatial_hashing

\* the sprite is a member of the list
InList(s) == Contains(sprite_list, s)

\* the sprites the application animates, and how often it has set a field
Animated == {s \in Sprites : HasTexture(s)}

Changes ==
    Cardinality({c \in Sprites \X Fields \X (1..MaxPose) :
                     c[3] <= pose[c[1]][c[2]]})

\* the application sets a field of a sprite; only an update_* call tells the
\* list
sprite_changes(s, f) ==
    /\ Changes < MaxPose
    /\ Call([Self EXCEPT !.pose[s][f] = @ + 1])

\* a list made before or after the window, filled, emptied and drawn
DrawInit ==
    \E w \in BOOLEAN :
        /\ window = w
        /\ Is(NewSpriteList("None", 1, w))
        /\ NoGame

DrawNext ==
    \/ create_window
    \/ \E s \in Sprites : call_append(s)
    \/ \E i \in 0..1, s \in Sprites : call_insert(i, s)
    \/ \E s \in Sprites : call_remove(s)
    \/ call_draw

\* the list's copy of field f of the member s
Copy(s, f) ==
    LET slot == sprite_slot[s]
    IN CASE f = "position" -> _sprite_pos_data[slot * 2 + 1]
         [] f = "width" -> _sprite_size_data[slot * 2 + 1]
         [] f = "height" -> _sprite_size_data[slot * 2 + 2]
         [] f = "angle" -> _sprite_angle_data[slot + 1]
         [] f = "color" -> _sprite_color_data[slot * 4 + 1]
         [] f = "texture" -> _sprite_texture_data[slot + 1]

Field(s, f) ==
    CASE f = "position" -> SpriteX(Self, s)
      [] f = "width" -> SpriteWidth(Self, s)
      [] f = "height" -> SpriteHeight(Self, s)
      [] f = "angle" -> SpriteAngle(Self, s)
      [] f = "color" -> SpriteColor(Self, s)[1]
      [] f = "texture" -> AtlasSlot(Self, s)

\* the member s has set one of the fields since the list copied it
Stale(s, fields) ==
    /\ InList(s)
    /\ \E f \in fields : Copy(s, f) # Field(s, f)

\* a list whose sprites change while it is filled, emptied and drawn; the
\* update_* methods are called by the Sprite class, for the lists the sprite
\* is in, after a field they copy was set
SyncInit ==
    /\ window = TRUE
    /\ Is(NewSpriteList("None", 1, TRUE))
    /\ NoGame

SyncNext ==
    \/ \E s \in Animated, f \in Fields : sprite_changes(s, f)
    \/ \E s \in Sprites : call_append(s)
    \/ \E s \in Sprites : call_insert(0, s)
    \/ \E s \in Sprites : call_remove(s)
    \/ \E s \in Sprites : call_setitem(0, s)
    \/ \E s \in Sprites : Stale(s, {"position"}) /\ call_update_position(s)
    \/ \E s \in Sprites : Stale(s, {"color"}) /\ call_update_color(s)
    \/ \E s \in Sprites : Stale(s, {"width", "height"}) /\ call_update_size(s)
    \/ \E s \in Sprites : Stale(s, {"height"}) /\ call_update_height(s)
    \/ \E s \in Sprites : Stale(s, {"width"}) /\ call_update_width(s)
    \/ \E s \in Sprites : Stale(s, {"position"}) /\ call_update_location(s)
    \/ \E s \in Sprites : Stale(s, {"angle"}) /\ call_update_angle(s)
    \/ \E s \in Sprites : Stale(s, {"texture", "width", "height"}) /\ call_update_texture(s)
    \/ call_draw

\* ---------------------------------------------------------------- the game
\* sideshot.py after playspace() and setup().  A sprite's edges are taken
\* from its centre and its size: left = center_x - width / 2, and so on.
BULLET_SPEED == 5
MaxTicks == 4
MaxBullets == 1
CullUpdates == 2

\* window and player image sizes tried: <<screen_w, screen_h, width, height>>;
\* in each the player, placed at (300, 300), starts inside the window
GameSizes == { <<1000, 500, 600, 400>>,
               <<1000, 600, 600, 600>>,
               <<346, 341, 80, 80>> }
\* the laser image scaled by SPRITE_SCALING_LASER, and the background image
BulletSize == <<40, 8>>
BackgroundSize == <<40, 500>>

Keys == {"UP", "W", "DOWN", "S", "LEFT", "A", "RIGHT", "D", "SPACE", "ESCAPE"}
MoveEnum == {"NONE", "UP", "DOWN", "LEFT", "RIGHT"}

Left(sprite) == sprite.center_x - sprite.width \div 2
Right(sprite) == sprite.center_x + sprite.width \div 2
Bottom(sprite) == sprite.center_y - sprite.height \div 2
Top(sprite) == sprite.center_y + sprite.height \div 2

\* sprite.left = value, sprite.bottom = value
SetLeft(sprite, value) ==
    [sprite EXCEPT !.center_x = @ + (value - Left(sprite))]
SetBottom(sprite, value) ==
    [sprite EXCEPT !.center_y = @ + (value - Bottom(sprite))]

\* MinimalSprite.slide and MinimalSprite.slide2, which are the same
slide(sprite) ==
    LET moved == [sprite EXCEPT !.speed = 0, !.center_x = @ - 5]
    IN IF Right(moved) = 0 THEN SetLeft(moved, 1000) ELSE moved

slide2(sprite) ==
    LET moved == [sprite EXCEPT !.speed = 0, !.center_x = @ - 5]
    IN IF Right(moved) = 0 THEN SetLeft(moved, 1000) ELSE moved

move(sprite, dir, game) ==
    IF dir = "UP" /\ ~(sprite.center_y + sprite.height \div 2 > game.height)
    THEN [sprite EXCEPT !.center_y = @ + sprite.speed]
    ELSE IF dir = "DOWN" /\ ~(sprite.center_y - sprite.height \div 2 < 0)
    THEN [sprite EXCEPT !.center_y = @ - sprite.speed]
    ELSE IF dir = "LEFT" /\ ~(sprite.center_x - sprite.width \div 2 < 0)
    THEN [sprite EXCEPT !.center_x = @ - sprite.speed]
    ELSE IF dir = "RIGHT" /\ ~(sprite.center_x + sprite.width \div 2 > game.width)
    THEN [sprite EXCEPT !.center_x = @ + sprite.speed]
    ELSE sprite

\* Sprite.update: the sprite moves by its change_x, change_y
SpriteUpdate(sprite) ==
    [sprite EXCEPT !.center_x = @ + sprite.change_x,
                   !.center_y = @ + sprite.change_y]

\* the loop "for bullet in self.bullet_list" of on_update: the iterator is
\* at position i of the list, which a removal shortens under it
RECURSIVE CullLoop(_, _, _)
CullLoop(bullets, i, game) ==
    IF i > Len(bullets) THEN bullets
    ELSE IF Bottom(bullets[i]) > game.height
    THEN CullLoop(SubSeq(bullets, 1, i - 1) \o SubSeq(bullets, i + 1, Len(bullets)),
                  i + 1, game)
    ELSE CullLoop(bullets, i + 1, game)

\* the bullet that a SPACE press makes
NewBullet(player) ==
    SetBottom([center_x |-> player.center_x + 60,
               center_y |-> player.center_y + 30,
               width |-> BulletSize[1], height |-> BulletSize[2],
               change_x |-> BULLET_SPEED, change_y |-> 0],
              Top(player))

PressDirection(dir, key) ==
    IF key = "UP" \/ key = "W" THEN "UP"
    ELSE IF key = "DOWN" \/ key = "S" THEN "DOWN"
    ELSE IF key = "LEFT" \/ key = "A" THEN "LEFT"
    ELSE IF key = "RIGHT" \/ key = "D" THEN "RIGHT"
    ELSE dir

\* variant: the release of a movement key stops the player whatever the
\* direction is
ReleaseDirection_any(dir, key) ==
    IF key \in {"UP", "W", "DOWN", "S", "LEFT", "A", "RIGHT", "D"}
    THEN "NONE"
    ELSE dir

ReleaseDirection(dir, key) ==
    LET d1 == IF (key = "UP" \/ key = "W") /\ dir = "UP" THEN "NONE" ELSE dir
        d2 == IF (key = "DOWN" \/ key = "S") /\ d1 = "DOWN" THEN "NONE" ELSE d1
        d3 == IF (key = "LEFT" \/ key = "A") /\ d2 = "LEFT" THEN "NONE" ELSE d2
    IN IF (key = "RIGHT" \/ key = "D") /\ d3 = "RIGHT" THEN "NONE" ELSE d3

GameInit ==
    \E size \in GameSizes :
        /\ screen = [width |-> size[1], height |-> size[2]]
        /\ pict = [center_x |-> 300, center_y |-> 300, speed |-> 3,
                   width |-> size[3], height |-> size[4]]
        /\ backg = [center_x |-> 1000, center_y |-> 250, speed |-> 3,
                    width |-> BackgroundSize[1]]
        /\ backg2 = [center_x |-> 0, center_y |-> 250, speed |-> 3,
                     width |-> BackgroundSize[1]]
        /\ direction = "NONE"
        /\ bullet_list = <<>>
        /\ ticks = 0
        /\ NoList

on_update ==
    /\ ticks < MaxTicks
    /\ ticks' = ticks + 1
    /\ pict' = move(pict, direction, screen)
    /\ backg' = slide(backg)
    /\ backg2' = slide2(backg2)
    /\ bullet_list' =
           CullLoop([i \in 1..Len(bullet_list) |-> SpriteUpdate(bullet_list[i])],
                    1, screen)
    /\ UNCHANGED <<screen, direction, listvars>>

on_key_press(key) ==
    /\ direction' = PressDirection(direction, key)
    /\ IF key = "SPACE"
       THEN /\ Len(bullet_list) < MaxBullets
            /\ bullet_list' = Append(bullet_list, NewBullet(pict))
       ELSE UNCHANGED bullet_list
    /\ UNCHANGED <<screen, pict, backg, backg2, ticks, listvars>>

on_key_release(key) ==
    /\ direction' = ReleaseDirection(direction, key)
    /\ UNCHANGED <<screen, pict, backg, backg2, bullet_list, ticks, listvars>>

GameNext ==
    \/ on_update
    \/ \E key \in Keys : on_key_press(key)
    \/ \E key \in Keys : on_key_release(key)

vars == <<listvars, gamevars>>

\* ------------------------------------------------------- specifications
Spec == Init /\ [][Next]_vars

DrawSpec == DrawInit /\ [][DrawNext]_vars
SyncSpec == SyncInit /\ [][SyncNext]_vars

GameSpec == GameInit /\ [][GameNext]_vars

\* ------------------------------------------------------------ the claims
\* the fields of the list and of its sprites, without the record of the
\* last call (called, raised, returned)
structure ==
    <<_initialized, _buf_capacity, _idx_capacity, _sprite_buffer_slots,
      _sprite_index_slots, _sprite_buffer_free_slots, _deferred_sprites,
      sprite_list, sprite_slot, _sprite_pos_data, _sprite_size_data,
      _sprite_angle_data, _sprite_color_data, _sprite_texture_data,
      _sprite_index_data, _sprite_pos_changed, _sprite_size_changed,
      _sprite_angle_changed, _sprite_color_changed, _sprite_texture_changed,
      _sprite_index_changed, _sprite_pos_buf, _sprite_size_buf,
      _sprite_angle_buf, _sprite_color_buf, _sprite_texture_buf,
      _sprite_index_buf, spatial_hash, _use_spatial_hash, sprite_lists, pose>>

\* C1: in every state reached by append, insert, remove, pop, __setitem__,
\* swap, reverse and shuffle, the sprites of the list each have a slot and no
\* two sprites have the same slot: sprite_slot is injective.
C1_SlotsInjective ==
    /\ \A s \in Sprites : InList(s) => s \in DOMAIN sprite_slot
    /\ \A a, b \in DOMAIN sprite_slot : a # b => sprite_slot[a] # sprite_slot[b]

\* two sprites are in the list, the one appended last in a slot that was
\* freed before, below the slot of the other
C1_Witness ==
    /\ called = "append" /\ raised = "none"
    /\ Len(sprite_list) = 2
    /\ sprite_slot[sprite_list[2]] < sprite_slot[sprite_list[1]]

\* C2: a sprite added by append or insert while the free list is not empty
\* gets the slot freed earliest, the head of the free list, which remove
\* fills at its end, and _sprite_buffer_slots stays; with the free list empty
\* it gets the fresh slot, the old _sprite_buffer_slots, which grows by one.
C2_SlotReuseFifo ==
    [][ /\ (called' \in {"append", "insert"} /\ raised' = "none") =>
            \A s \in DOMAIN sprite_slot' \ DOMAIN sprite_slot :
                IF _sprite_buffer_free_slots # <<>>
                THEN /\ sprite_slot'[s] = Head(_sprite_buffer_free_slots)
                     /\ _sprite_buffer_free_slots' = Tail(_sprite_buffer_free_slots)
                     /\ _sprite_buffer_slots' = _sprite_buffer_slots
                ELSE /\ sprite_slot'[s] = _sprite_buffer_slots
                     /\ _sprite_buffer_slots' = _sprite_buffer_slots + 1
                     /\ _sprite_buffer_free_slots' = <<>>
        /\ (called' \in {"remove", "pop"}) =>
            \A s \in DOMAIN sprite_slot \ DOMAIN sprite_slot' :
                _sprite_buffer_free_slots' =
                    Append(_sprite_buffer_free_slots, sprite_slot[s])
      ]_vars

\* slots 0 and 1 were freed in this order; the sprite appended since has
\* slot 0 and slot 1 is still free
C2_Witness ==
    /\ called = "append" /\ raised = "none"
    /\ Len(sprite_list) = 1
    /\ sprite_slot[sprite_list[1]] = 0
    /\ _sprite_buffer_free_slots = <<1>>
    /\ _sprite_buffer_slots = 2

\* the GPU buffer starts with the content of the CPU array (_init_deferred
\* reserves more bytes for some buffers than their array has)
Holds(buf, data) ==
    /\ Len(buf) >= Len(data)
    /\ \A i \in 1..Len(data) : buf[i] = data[i]

\* C3: after draw() returns on an initialised, non-empty list each of the
\* five GPU attribute buffers holds the content of its CPU array; at any time
\* a CPU attribute array that differs from its GPU buffer has its *_changed
\* flag set.
C3_BuffersInSync ==
    _initialized =>
        /\ ~_sprite_pos_changed => Holds(_sprite_pos_buf, _sprite_pos_data)
        /\ ~_sprite_size_changed => Holds(_sprite_size_buf, _sprite_size_data)
        /\ ~_sprite_angle_changed => Holds(_sprite_angle_buf, _sprite_angle_data)
        /\ ~_sprite_color_changed => Holds(_sprite_color_buf, _sprite_color_data)
        /\ ~_sprite_texture_changed =>
               Holds(_sprite_texture_buf, _sprite_texture_data)
        /\ (called = "draw" /\ raised = "none" /\ sprite_list # <<>>) =>
               /\ Holds(_sprite_pos_buf, _sprite_pos_data)
               /\ Holds(_sprite_size_buf, _sprite_size_data)
               /\ Holds(_sprite_angle_buf, _sprite_angle_data)
               /\ Holds(_sprite_color_buf, _sprite_color_data)
               /\ Holds(_sprite_texture_buf, _sprite_texture_data)

\* draw() has returned on a list that has grown and whose sprite in slot 0
\* was turned after it was added: the GPU buffer has the new angle
C3_Witness ==
    /\ called = "draw" /\ raised = "none"
    /\ _buf_capacity = 4
    /\ \E s \in Animated :
           /\ InList(s)
           /\ sprite_slot[s] = 0
           /\ pose[s]["angle"] = 1
           /\ _sprite_angle_buf[1] = SpriteAngle(Self, s)

\* C4: while spatial hashing is enabled, the spatial hash holds exactly the
\* sprites of sprite_list.
C4_HashHoldsTheList ==
    spatial_hash.present => spatial_hash.contents = Range(sprite_list)

\* what C5 says of each state
C5_CapacityInvariant ==
    /\ _sprite_buffer_slots < _buf_capacity
    /\ \A s \in DOMAIN sprite_slot : sprite_slot[s] < _buf_capacity
    /\ Len(_sprite_pos_data) = _buf_capacity * 2
    /\ Len(_sprite_size_data) = _buf_capacity * 2
    /\ Len(_sprite_angle_data) = _buf_capacity
    /\ Len(_sprite_color_data) = _buf_capacity * 4
    /\ Len(_sprite_texture_data) = _buf_capacity

\* the components of the slots below n are the same in both arrays
SameSlots(old, new, n, components) ==
    \A i \in 1..(n * components) : new[i] = old[i]

\* what C5 says of each step
C5_GrowthStep ==
    /\ _buf_capacity' = IF _sprite_buffer_slots' = _buf_capacity
                        THEN 2 * _buf_capacity
                        ELSE _buf_capacity
    /\ _buf_capacity' # _buf_capacity =>
        /\ SameSlots(_sprite_pos_data, _sprite_pos_data', _sprite_buffer_slots, 2)
        /\ SameSlots(_sprite_size_data, _sprite_size_data', _sprite_buffer_slots, 2)
        /\ SameSlots(_sprite_angle_data, _sprite_angle_data', _sprite_buffer_slots, 1)
        /\ SameSlots(_sprite_color_data, _sprite_color_data', _sprite_buffer_slots, 4)
        /\ SameSlots(_sprite_texture_data, _sprite_texture_data',
                     _sprite_buffer_slots, 1)

\* C5: _buf_capacity doubles exactly when the number of allocated slots
\* reaches it and never shrinks; _sprite_buffer_slots and every assigned slot
\* are below _buf_capacity; each attribute array is _buf_capacity times its
\* component count (2, 2, 1, 4, 1) long; growth keeps the data of the slots
\* allocated before.
C5_BuffersGrowOnDemand ==
    /\ C5_CapacityInvariant
    /\ [][C5_CapacityInvariant' /\ C5_GrowthStep]_vars

\* the capacity has doubled twice and the sprite in slot 0 still has its
\* data there
C5_Witness ==
    /\ _buf_capacity = 4
    /\ _sprite_buffer_slots = 2
    /\ \E s \in DOMAIN sprite_slot :
           /\ sprite_slot[s] = 0
           /\ _sprite_pos_data[1] = SpriteX(Self, s)
           /\ _sprite_color_data[4] = SpriteAlpha(Self, s)

\* C6: the player sprite stays inside the window: its left and bottom edges
\* are not below 0, its right edge is not beyond the window's width and its
\* top edge not beyond the window's height.
C6_PlayerInWindow ==
    /\ Left(pict) >= 0
    /\ Bottom(pict) >= 0
    /\ Right(pict) <= screen.width
    /\ Top(pict) <= screen.height

\* C7: a bullet that has flown out of the window is removed by on_update:
\* no bullet of bullet_list is further beyond the right edge than it flies
\* in CullUpdates calls of on_update.
C7_OffScreenBulletsRemoved ==
    \A i \in 1..Len(bullet_list) :
        Left(bullet_list[i]) <= screen.width + CullUpdates * BULLET_SPEED

\* C8: a list constructed while no window exists is not initialised by the
\* constructor, which does not raise, and the first draw() once a window
\* exists runs _init_deferred to its end and sets _initialized, whatever
\* append, insert and remove calls came before (of sprites with a texture).
C8_DeferredInitCompletes ==
    /\ ~window => (raised = "none" /\ ~_initialized)
    /\ [][ (/\ call_draw
            /\ window
            /\ ~_initialized
            /\ \A s \in _deferred_sprites : HasTexture(s))
           => (raised' = "none" /\ _initialized') ]_vars

\* the direction of a movement key, NONE for the other keys
KeyDirection(key) ==
    IF key \in {"UP", "W"} THEN "UP"
    ELSE IF key \in {"DOWN", "S"} THEN "DOWN"
    ELSE IF key \in {"LEFT", "A"} THEN "LEFT"
    ELSE IF key \in {"RIGHT", "D"} THEN "RIGHT"
    ELSE "NONE"

\* C9: on_key_press of a movement key sets the direction to that key's;
\* on_key_release sets it to NONE when the released key's direction is the
\* current one and leaves it alone otherwise.
C9_KeysSetDirection ==
    [][ \A key \in Keys :
          /\ (on_key_press(key) /\ KeyDirection(key) # "NONE") =>
                 direction' = KeyDirection(key)
          /\ on_key_release(key) =>
                 direction' = IF /\ KeyDirection(key) # "NONE"
                                 /\ KeyDirection(key) = direction
                              THEN "NONE"
                              ELSE direction ]_vars

\* the player has moved left and up, and was stopped by a key release
C9_Witness ==
    /\ direction = "NONE"
    /\ pict.center_x < 300
    /\ pict.center_y > 300

\* C10: append of a sprite that is in the list raises ValueError and leaves
\* the list as it was.
C10_AppendTwiceRaises ==
    [][ \A s \in Sprites :
            (call_append(s) /\ InList(s)) =>
                (raised' = "ValueError" /\ UNCHANGED structure) ]_vars

\* append has raised on a list that holds sprites
C10_Witness ==
    /\ called = "append" /\ raised = "ValueError"
    /\ Len(sprite_list) > 0

C12_PopReturnsTheSprite ==
    [][ \A i \in Indices :
          /\ (call_pop(i) /\ sprite_list = <<>>) =>
                 (raised' = "ValueError" /\ UNCHANGED structure)
          /\ (call_pop(i) /\ InRange(i, Len(sprite_list))) =>
                 LET sprite == sprite_list[PyIndex(i, Len(sprite_list)) + 1]
                 IN /\ raised' = "none"
                    /\ returned' = sprite
                    /\ sprite_list' = PyRemove(sprite_list, sprite)
                    /\ Len(sprite_list') = Len(sprite_list) - 1
                    /\ sprite \notin DOMAIN sprite_slot'
                    /\ _sprite_buffer_free_slots' =
                           Append(_sprite_buffer_free_slots, sprite_slot[sprite])
      ]_vars

\* C13: insert(index, sprite) of a sprite that is not in the list, for every
\* index, leaves the sprite's slot at the position of the used part of the
\* index buffer that the sprite has in sprite_list; insert of a sprite that
\* is in the list raises ValueError and leaves the list as it was.
C13_InsertKeepsDrawOrder ==
    [][ \A i \in InsertIndices, s \in Sprites :
          /\ (call_insert(i, s) /\ InList(s)) =>
                 (raised' = "ValueError" /\ UNCHANGED structure)
          /\ (call_insert(i, s) /\ ~InList(s)) =>
                 LET at == PyFind(sprite_list', s) + 1
                 IN /\ raised' = "none"
                    /\ at <= _sprite_index_slots'
                    /\ _sprite_index_data'[at] = sprite_slot'[s]
      ]_vars

\* C14: __setitem__(index, sprite) with a sprite that is not in the list puts
\* it in the place of the sprite at index: it takes over that sprite's slot,
\* the replaced sprite has no slot and is no member any more, and the length,
\* the index buffer, the free list and _sprite_buffer_slots stay as they
\* were; with the sprite that is at index already it does nothing; with a
\* sprite that is elsewhere in the list it raises and leaves the list as it
\* was.
C14_SetItemStealsTheSlot ==
    [][ \A i \in Indices, s \in Sprites :
          (call_setitem(i, s) /\ InRange(i, Len(sprite_list))) =>
              LET at == PyIndex(i, Len(sprite_list)) + 1
                  old == sprite_list[at]
              IN /\ (~InList(s)) =>
                        /\ raised' = "none"
                        /\ sprite_list' = [sprite_list EXCEPT ![at] = s]
                        /\ sprite_slot'[s] = sprite_slot[old]
                        /\ old \notin DOMAIN sprite_slot'
                        /\ ~Contains(sprite_list', old)
                        /\ UNCHANGED <<_sprite_index_data, _sprite_index_slots,
                                       _sprite_buffer_free_slots,
                                       _sprite_buffer_slots>>
                 /\ (old = s) =>
                        (raised' = "none" /\ UNCHANGED structure)
                 /\ (InList(s) /\ old # s) =>
                        (raised' = "Exception" /\ UNCHANGED structure)
      ]_vars

\* the list object after the call, without the record of the call
Outcome(L) == [L EXCEPT !.called = called, !.raised = raised,
                        !.returned = returned]

\* swapping the same pair twice gives the list as it is
C15_SwapTwice ==
    \A i, j \in Indices :
        (InRange(i, Len(sprite_list)) /\ InRange(j, Len(sprite_list))) =>
            Outcome(swap(swap(Self, i, j), i, j)) = Self

\* C15: swap(index_1, index_2) of two indices of the list exchanges the two
\* sprites in sprite_list and the two entries of their slots in the index
\* buffer and changes nothing else: the slots of the sprites and every other
\* field stay; swapping the same pair a second time gives the list as it was.
C15_SwapExchanges ==
    /\ C15_SwapTwice
    /\ [][ C15_SwapTwice' ]_vars
    /\ [][ \A i, j \in Indices :
             (/\ call_swap(i, j)
              /\ InRange(i, Len(sprite_list))
              /\ InRange(j, Len(sprite_list))) =>
                 LET p1 == PyIndex(i, Len(sprite_list)) + 1
                     p2 == PyIndex(j, Len(sprite_list)) + 1
                 IN /\ raised' = "none"
                    /\ sprite_list' =
                           [[sprite_list EXCEPT ![p1] = sprite_list[p2]]
                                         EXCEPT ![p2] = sprite_list[p1]]
                    /\ _sprite_index_data' =
                           [[_sprite_index_data
                                EXCEPT ![p1] = _sprite_index_data[p2]]
                                EXCEPT ![p2] = _sprite_index_data[p1]]
                    /\ Outcome([Self' EXCEPT
                                  !.sprite_list = sprite_list,
                                  !._sprite_index_data = _sprite_index_data])
                           = Self
         ]_vars

\* the part of the index buffer that is in use
UsedIndex(data, slots) == SubSeq(data, 1, slots)

\* reversing twice gives the sprite order and the index buffer as they are
C16_ReverseTwice ==
    LET twice == reverse(reverse(Self))
    IN /\ twice.sprite_list = sprite_list
       /\ twice._sprite_index_data = _sprite_index_data

\* C16: reverse() reverses sprite_list and the used prefix of the index
\* buffer, which stays _idx_capacity long and zero behind the used prefix;
\* reverse() applied twice gives back the sprite order and the index buffer.
C16_ReverseTwiceRestores ==
    /\ C16_ReverseTwice
    /\ [][ C16_ReverseTwice' ]_vars
    /\ [][ call_reverse =>
             /\ raised' = "none"
             /\ sprite_list' = PyReverse(sprite_list)
             /\ _sprite_index_slots' = _sprite_index_slots
             /\ Len(_sprite_index_data') = _idx_capacity
             /\ _idx_capacity' = _idx_capacity
             /\ UsedIndex(_sprite_index_data', _sprite_index_slots) =
                    PyReverse(UsedIndex(_sprite_index_data, _sprite_index_slots))
             /\ \A k \in (_sprite_index_slots + 1).._idx_capacity :
                    _sprite_index_data'[k] = 0
         ]_vars

\* C17: shuffle() returns without an error on every list, the empty one
\* too, leaves sprite_list with the same sprites, each once, and leaves at
\* every position of the list the slot of its sprite at the same position of
\* the index buffer.
C17_ShuffleKeepsThePairs ==
    [][ call_shuffle =>
          /\ raised' = "none"
          /\ Len(sprite_list') = Len(sprite_list)
          /\ Range(sprite_list') = Range(sprite_list)
          /\ \A k \in 1..Len(sprite_list') :
                 _sprite_index_data'[k] = sprite_slot'[sprite_list'[k]]
      ]_vars

\* C18: clear() returns and leaves the list empty: its length is 0, no
\* sprite has a slot and no sprite has the list in its sprite_lists.
C18_ClearEmptiesTheList ==
    [][ call_clear =>
          /\ raised' = "none"
          /\ Len(sprite_list') = 0
          /\ DOMAIN sprite_slot' = {}
          /\ \A s \in Sprites : sprite_lists'[s] = 0
      ]_vars

\* draw() has returned on an initialised list that holds sprites, and the
\* GPU index buffer starts with the content of _sprite_index_data
C19_DrawnInListOrder ==
    (called = "draw" /\ raised = "none" /\ _initialized /\ sprite_list # <<>>)
        => Holds(_sprite_index_buf, _sprite_index_data)

\* C19: every call that changes _sprite_index_data leaves
\* _sprite_index_changed set, and after draw() has returned on an initialised
\* list that holds sprites the GPU index buffer has the content of
\* _sprite_index_data.
C19_IndexChangesAreFlagged ==
    /\ C19_DrawnInListOrder
    /\ [][ /\ C19_DrawnInListOrder'
           /\ (_sprite_index_data' # _sprite_index_data) =>
                  _sprite_index_changed'
         ]_vars

====
